---- MODULE Spec2Model ----
(***************************************************************************)
(* State-machine model of the MonTana Mini Computer emulator               *)
(* (internal/emulator/mtmc.go) and of the HTTP handlers that drive it      *)
(* (internal/web/server.go).                                               *)
(*                                                                         *)
(* Processes: the clock goroutine (MonTanaMiniComputer.Run, process 0) and *)
(* MaxHandlers HTTP handler goroutines.  Every Go statement that reads or  *)
(* writes engine state is one action, so that the unsynchronised writes of *)
(* handleControl interleave with a step the way the scheduler allows.      *)
(***************************************************************************)
EXTENDS Integers, Sequences, FiniteSets, Bags, TLC

\* ------------------------------------------------------------- bounds
MaxHandlers == 2
MaxCmds == 3
MaxObs == 2

\* ---------------------------------------------------- program constants
WordSize == 2
MemorySize == 16
NumRegs == 16
SP == 10
PC == 14
SR == 15
StateWindow == 256

U16 == 65536

Clock == 0
Handlers == 1..MaxHandlers
Procs == {Clock} \cup Handlers
NoProc == -1

\* ------------------------------------------------------------ arithmetic
RECURSIVE Pow2(_)
Pow2(n) == IF n = 0 THEN 1 ELSE 2 * Pow2(n - 1)

RECURSIVE BitAnd(_, _, _)
BitAnd(a, b, n) ==
  IF n = 0 THEN 0
  ELSE (IF a % 2 = 1 /\ b % 2 = 1 THEN 1 ELSE 0) + 2 * BitAnd(a \div 2, b \div 2, n - 1)

RECURSIVE BitOr(_, _, _)
BitOr(a, b, n) ==
  IF n = 0 THEN 0
  ELSE (IF a % 2 = 1 \/ b % 2 = 1 THEN 1 ELSE 0) + 2 * BitOr(a \div 2, b \div 2, n - 1)

RECURSIVE BitXor(_, _, _)
BitXor(a, b, n) ==
  IF n = 0 THEN 0
  ELSE (IF a % 2 # b % 2 THEN 1 ELSE 0) + 2 * BitXor(a \div 2, b \div 2, n - 1)

\* uint16 shifts: a count of 16 or more shifts every bit out
Shl16(a, n) == IF n >= 16 THEN 0 ELSE (a * Pow2(n)) % U16
Shr16(a, n) == IF n >= 16 THEN 0 ELSE a \div Pow2(n)

\* binary.BigEndian.Uint16(c.Memory[a:]) for a slice that holds two bytes
Uint16At(m, a) == m[a] * 256 + m[a + 1]

\* binary.BigEndian.PutUint16(c.Memory[a:], v)
PutUint16At(m, a, v) == [m EXCEPT ![a] = v \div 256, ![a + 1] = v % 256]

\* c.Memory[a:] followed by a two-byte access panics unless two bytes remain
WordInMemory(a) == a + WordSize <= MemorySize

\* ---------------------------------------------------------------- decode
OpCode(ins) == ins \div 4096
RegD(ins) == (ins \div 256) % 16
RegS(ins) == (ins \div 16) % 16
RegT(ins) == ins % 16
\* int16(instruction & 0x00FF): always 0..255, the sign bit of the byte is not extended
Imm(ins) == ins % 256

\* --------------------------------------------------------------- execute
\* The effect of the switch in step() on the registers r (PC already advanced)
\* and the memory m: what the selected case reads, and the one write it makes.
NoEffect == [k |-> "none", i |-> 0, v |-> 0]
RegWrite(i, v) == [k |-> "reg", i |-> i, v |-> v]
MemWrite(a, v) == [k |-> "mem", i |-> a, v |-> v]
StopEffect == [k |-> "stop", i |-> 0, v |-> 0]
PanicEffect == [k |-> "panic", i |-> 0, v |-> 0]

EffAddr(r, ins) == (r[RegS(ins)] + Imm(ins)) % U16

\* a switch whose default case does nothing
EffectDefaultNop(r, m, ins) ==
  LET d == RegD(ins)
      s == r[RegS(ins)]
      t == r[RegT(ins)]
      op == OpCode(ins)
  IN  CASE op = 1 -> RegWrite(d, (s + t) % U16)
        [] op = 2 -> RegWrite(d, (s - t) % U16)
        [] op = 3 -> RegWrite(d, BitAnd(s, t, 16))
        [] op = 4 -> RegWrite(d, BitOr(s, t, 16))
        [] op = 5 -> RegWrite(d, BitXor(s, t, 16))
        [] op = 6 -> RegWrite(d, Shl16(s, t))
        [] op = 7 -> RegWrite(d, Shr16(s, t))
        [] op = 9 -> RegWrite(d, (s + Imm(ins)) % U16)
        [] op = 10 -> RegWrite(d, (s - Imm(ins)) % U16)
        [] op = 12 -> IF WordInMemory(EffAddr(r, ins))
                      THEN RegWrite(d, Uint16At(m, EffAddr(r, ins)))
                      ELSE PanicEffect
        [] op = 13 -> IF WordInMemory(EffAddr(r, ins))
                      THEN MemWrite(EffAddr(r, ins), r[d])
                      ELSE PanicEffect
        [] op = 14 -> IF s = 0
                      THEN RegWrite(PC, (r[PC] + ((Imm(ins) * 2) % U16)) % U16)
                      ELSE NoEffect
        [] op = 15 -> StopEffect
        [] OTHER -> NoEffect

Effect(r, m, ins) ==
  LET d == RegD(ins)
      s == r[RegS(ins)]
      t == r[RegT(ins)]
      op == OpCode(ins)
  IN  CASE op = 1 -> RegWrite(d, (s + t) % U16)
        [] op = 2 -> RegWrite(d, (s - t) % U16)
        [] op = 3 -> RegWrite(d, BitAnd(s, t, 16))
        [] op = 4 -> RegWrite(d, BitOr(s, t, 16))
        [] op = 5 -> RegWrite(d, BitXor(s, t, 16))
        [] op = 6 -> RegWrite(d, Shl16(s, t))
        [] op = 7 -> RegWrite(d, Shr16(s, t))
        [] op = 9 -> RegWrite(d, (s + Imm(ins)) % U16)
        [] op = 10 -> RegWrite(d, (s - Imm(ins)) % U16)
        [] op = 12 -> IF WordInMemory(EffAddr(r, ins))
                      THEN RegWrite(d, Uint16At(m, EffAddr(r, ins)))
                      ELSE PanicEffect
        [] op = 13 -> IF WordInMemory(EffAddr(r, ins))
                      THEN MemWrite(EffAddr(r, ins), r[d])
                      ELSE PanicEffect
        [] op = 14 -> IF s = 0
                      THEN RegWrite(PC, (r[PC] + ((Imm(ins) * 2) % U16)) % U16)
                      ELSE NoEffect
        [] op = 15 -> StopEffect
        [] OTHER -> StopEffect

\* ------------------------------------------- sequential (uninterrupted) code
\* An engine state is [regs, mem, running].  These operators are the handlers'
\* code run from start to end with nothing interleaved.
EngineState(r, m, run) == [regs |-> r, mem |-> m, running |-> run]

ApplyEffect(s, e) ==
  CASE e.k = "reg" -> [s EXCEPT !.regs[e.i] = e.v]
    [] e.k = "mem" -> [s EXCEPT !.mem = PutUint16At(s.mem, e.i, e.v)]
    [] e.k = "stop" -> [s EXCEPT !.running = FALSE]
    [] OTHER -> s

PCInRange(pc) == pc < MemorySize - 1

SeqStep(s) ==
  LET pc == s.regs[PC] IN
  IF ~PCInRange(pc) THEN [s EXCEPT !.running = FALSE]
  ELSE LET ins == Uint16At(s.mem, pc)
           s1 == [s EXCEPT !.regs[PC] = (pc + 2) % U16]
       IN  ApplyEffect(s1, Effect(s1.regs, s1.mem, ins))

\* copy that drops the last byte
CopyLenShort(prog, address) ==
  IF Len(prog) <= MemorySize - address THEN Len(prog) - 1 ELSE MemorySize - address

\* copy(c.Memory[address:], program): min(len(dst), len(src)) bytes are copied
CopyLen(prog, address) ==
  IF Len(prog) <= MemorySize - address THEN Len(prog) ELSE MemorySize - address

CopyInto(m, prog, address) ==
  [a \in DOMAIN m |->
     IF a >= address /\ a < address + CopyLen(prog, address)
     THEN prog[a - address + 1] ELSE m[a]]

SeqLoad(s, prog, address) ==
  IF address > MemorySize THEN s
  ELSE [s EXCEPT !.mem = CopyInto(s.mem, prog, address), !.regs[PC] = address]

SeqReset(s) == [s EXCEPT !.regs[PC] = 0, !.running = FALSE]
SeqRun(s) == [s EXCEPT !.running = TRUE]
SeqPause(s) == [s EXCEPT !.running = FALSE]

\* ------------------------------------------------------- program catalog
\* The binaries the loader is given (disk/bin); raw big-endian instruction words.
\* ADDI R1,R0,5 ; ADD R2,R1,R1 ; SW R1,[R0+12] ; HALT
ProgArith == <<145, 5, 18, 17, 209, 12, 240, 0>>
\* SW R1,[R0+15] ; SUBI R0,R0,1 ; LW R2,[R0+5]
ProgFault == <<209, 15, 160, 1, 194, 5>>
\* BZ R0,+1 ; (skipped) ; ADDI R1,R0,1 ; HALT ; ... ; 18 bytes, two more than memory
ProgLong == <<224, 1, 0, 0, 145, 1, 240, 0, 0, 0, 0, 0, 0, 0, 0, 0, 240, 0>>
\* SUBI R0,R0,1 ; LW R2,[R0+5] ; HALT
ProgWrap == <<160, 1, 194, 5, 240, 0>>
\* ADD R3,R0,R0 ; ADDI R1,SR,255 ; BZ SP,+161 (SP is not 0: falls through) ;
\* opcode 8 ; opcode 11
ProgMisc == <<19, 0, 145, 255, 224, 161, 128, 0, 176, 0>>
\* ADDI PC,R0,6 ; ... ; at 6: BZ SR,+255 (SR is 0: taken, far beyond the end of memory)
ProgJump == <<158, 6, 0, 0, 0, 0, 224, 255>>
Programs == {ProgArith, ProgFault, ProgLong, ProgWrap, ProgMisc, ProgJump}
\* handleLoad passes address 0
LoadAddrs == {0}

\* ------------------------------------------------------------------ state
VARIABLES
  regs,       \* c.Registers
  mem,        \* c.Memory
  running,    \* c.Running
  mutex,      \* c.mutex: the process holding it, or NoProc
  observers,  \* c.observers: observer ids in registry order
  sent,       \* messages written to the observers' connections for the current step
  crashed,    \* the process has died of an unrecovered panic
  pcs,        \* each goroutine's position
  loc,        \* each goroutine's local variables
  issued,     \* number of requests served so far (bounded by MaxCmds)
  added,      \* ids of the observers passed to AddObserver so far
  scen,       \* history: engine state at the last quiescent point and the commands since
  halted,     \* history: the engine stopped by HALT, unknown opcode or PC bounds, no reset/load since
  quiet,      \* history: HALT was executed and no control command has acted since
  loaded,     \* history: the last LoadProgram, while nothing has written PC or memory since
  aluSeen     \* history: <<class of the result, status register>> after each ALU instruction so far

vars == <<regs, mem, running, mutex, observers, sent, crashed, pcs, loc,
          issued, added, scen, halted, quiet, loaded, aluSeen>>

Local0 == [ins |-> 0, tmp |-> 0, eff |-> NoEffect, obs |-> <<>>, i |-> 0,
           ret |-> "", prog |-> <<>>, addr |-> 0]
NoLoad == [valid |-> FALSE, prog |-> <<>>, addr |-> 0]

Engine == EngineState(regs, mem, running)

\* New(): zeroed memory and registers, SP at the top of memory
Init ==
  /\ regs = [r \in 0..(NumRegs - 1) |-> IF r = SP THEN MemorySize - 2 ELSE 0]
  /\ mem = [a \in 0..(MemorySize - 1) |-> 0]
  /\ running = FALSE
  /\ mutex = NoProc
  /\ observers = <<>>
  /\ sent = <<>>
  /\ crashed = FALSE
  /\ pcs = [p \in Procs |-> "idle"]
  /\ loc = [p \in Procs |-> Local0]
  /\ issued = 0
  /\ added = {}
  /\ scen = [ok |-> TRUE, base |-> Engine, ops |-> EmptyBag, conc |-> FALSE]
  /\ halted = FALSE
  /\ quiet = FALSE
  /\ loaded = NoLoad
  /\ aluSeen = {}

\* ---------------------------------------------------------------- history
Quiescent == \A p \in Procs : pcs[p] = "idle"

Cmd(op, prog, addr) == [op |-> op, prog |-> prog, addr |-> addr]

\* the scenario after handler p issues command c
Issue(p, c) ==
  IF Quiescent
  THEN [ok |-> ~running /\ c.op # "run", base |-> Engine,
        ops |-> SetToBag({c}), conc |-> FALSE]
  ELSE [scen EXCEPT !.ok = @ /\ c.op # "run", !.ops = @ (+) SetToBag({c}),
                    !.conc = @ \/ (c.op = "step" /\ \E q \in Handlers \ {p} :
                                      pcs[q] \in {"lock", "fetch", "incR", "incW", "exec", "commit"})]

CanIssue(p) == ~crashed /\ p \in Handlers /\ pcs[p] = "idle" /\ issued < MaxCmds

Goto(p, l) == pcs' = [pcs EXCEPT ![p] = l]
Return(p) == pcs' = [pcs EXCEPT ![p] = "idle"] /\ loc' = [loc EXCEPT ![p] = Local0]

\* ------------------------------------------------- handleControl (server.go)
\* action=run: s.computer.Running = true, without the engine lock
Run(p) ==
  /\ CanIssue(p)
  /\ running' = TRUE
  /\ issued' = issued + 1
  /\ scen' = Issue(p, Cmd("run", <<>>, 0))
  /\ quiet' = FALSE
  /\ UNCHANGED <<regs, mem, mutex, observers, sent, crashed, pcs, loc, added, halted, loaded>>
  /\ UNCHANGED aluSeen

\* action=pause: s.computer.Running = false, without the engine lock
Pause(p) ==
  /\ CanIssue(p)
  /\ running' = FALSE
  /\ issued' = issued + 1
  /\ scen' = Issue(p, Cmd("pause", <<>>, 0))
  /\ quiet' = FALSE
  /\ UNCHANGED <<regs, mem, mutex, observers, sent, crashed, pcs, loc, added, halted, loaded>>
  /\ UNCHANGED aluSeen

\* action=reset, first statement: s.computer.Registers[emulator.PC] = 0
ResetPC(p) ==
  /\ CanIssue(p)
  /\ regs' = [regs EXCEPT ![PC] = 0]
  /\ Goto(p, "reset_run")
  /\ issued' = issued + 1
  /\ scen' = Issue(p, Cmd("reset", <<>>, 0))
  /\ quiet' = FALSE
  /\ halted' = FALSE
  /\ loaded' = NoLoad
  /\ UNCHANGED <<mem, running, mutex, observers, sent, crashed, loc, added>>
  /\ UNCHANGED aluSeen

\* action=reset, second statement: s.computer.Running = false
ResetRunning(p) ==
  /\ ~crashed
  /\ pcs[p] = "reset_run"
  /\ running' = FALSE
  /\ Return(p)
  /\ quiet' = FALSE
  /\ UNCHANGED <<regs, mem, mutex, observers, sent, crashed, issued, added, scen, halted, loaded>>
  /\ UNCHANGED aluSeen

\* action=step: s.computer.Step() is called
StepCall(p) ==
  /\ CanIssue(p)
  /\ Goto(p, "lock")
  /\ issued' = issued + 1
  /\ scen' = Issue(p, Cmd("step", <<>>, 0))
  /\ quiet' = FALSE
  /\ UNCHANGED <<regs, mem, running, mutex, observers, sent, crashed, loc, added, halted, loaded>>
  /\ UNCHANGED aluSeen

\* ------------------------------------------------------ Step / Run (mtmc.go)
\* Step without waiting for the engine lock
StepLockNoWait(p) ==
  /\ ~crashed
  /\ pcs[p] = "lock"
  /\ mutex' = p
  /\ Goto(p, "fetch")
  /\ UNCHANGED <<regs, mem, running, observers, sent, crashed, loc, issued, added, scen,
                 halted, quiet, loaded>>
  /\ UNCHANGED aluSeen

\* Step: c.mutex.Lock()
StepLock(p) ==
  /\ ~crashed
  /\ pcs[p] = "lock"
  /\ mutex = NoProc
  /\ mutex' = p
  /\ Goto(p, "fetch")
  /\ UNCHANGED <<regs, mem, running, observers, sent, crashed, loc, issued, added, scen,
                 halted, quiet, loaded>>
  /\ UNCHANGED aluSeen

\* a tick that steps without taking the engine lock
TickNoLock ==
  /\ ~crashed
  /\ pcs[Clock] = "idle"
  /\ IF running
     THEN /\ Goto(Clock, "fetch")
          /\ UNCHANGED <<regs, mem, running, mutex, observers, sent, crashed, loc, issued,
                         added, scen, halted, quiet, loaded>>
     ELSE UNCHANGED vars
  /\ UNCHANGED aluSeen

\* a tick that steps whether or not the engine is running
TickAlways ==
  /\ ~crashed
  /\ pcs[Clock] = "idle"
  /\ mutex = NoProc
  /\ mutex' = Clock
  /\ Goto(Clock, "fetch")
  /\ UNCHANGED <<regs, mem, running, observers, sent, crashed, loc, issued, added,
                 scen, halted, quiet, loaded>>
  /\ UNCHANGED aluSeen

\* Run: one tick: c.mutex.Lock(); if c.Running { step; notify }; c.mutex.Unlock()
Tick ==
  /\ ~crashed
  /\ pcs[Clock] = "idle"
  /\ mutex = NoProc
  /\ IF running
     THEN /\ mutex' = Clock
          /\ Goto(Clock, "fetch")
          /\ UNCHANGED <<regs, mem, running, observers, sent, crashed, loc, issued, added,
                         scen, halted, quiet, loaded>>
     ELSE UNCHANGED vars
  /\ UNCHANGED aluSeen

\* a bounds check that leaves Running as it is
FetchKeepsRunning(p) ==
  /\ ~crashed
  /\ pcs[p] = "fetch"
  /\ IF ~PCInRange(regs[PC])
     THEN /\ Goto(p, "notify")
          /\ UNCHANGED <<loc, running, halted>>
     ELSE /\ loc' = [loc EXCEPT ![p].ins = Uint16At(mem, regs[PC])]
          /\ Goto(p, "incR")
          /\ UNCHANGED <<running, halted>>
  /\ UNCHANGED <<regs, mem, mutex, observers, sent, crashed, issued, added, scen, quiet, loaded>>
  /\ UNCHANGED aluSeen

\* step: pc := c.Registers[PC]; bounds check; instruction := Uint16(c.Memory[pc:])
Fetch(p) ==
  /\ ~crashed
  /\ pcs[p] = "fetch"
  /\ IF ~PCInRange(regs[PC])
     THEN /\ running' = FALSE
          /\ halted' = TRUE
          /\ Goto(p, "notify")
          /\ UNCHANGED loc
     ELSE /\ loc' = [loc EXCEPT ![p].ins = Uint16At(mem, regs[PC])]
          /\ Goto(p, "incR")
          /\ UNCHANGED <<running, halted>>
  /\ UNCHANGED <<regs, mem, mutex, observers, sent, crashed, issued, added, scen, quiet, loaded>>
  /\ UNCHANGED aluSeen

\* step: c.Registers[PC] += 2, the read
IncRead(p) ==
  /\ ~crashed
  /\ pcs[p] = "incR"
  /\ loc' = [loc EXCEPT ![p].tmp = regs[PC]]
  /\ Goto(p, "incW")
  /\ UNCHANGED <<regs, mem, running, mutex, observers, sent, crashed, issued, added, scen,
                 halted, quiet, loaded>>
  /\ UNCHANGED aluSeen

\* an advance by one (a program counter that counts words)
IncWriteByOne(p) ==
  /\ ~crashed
  /\ pcs[p] = "incW"
  /\ regs' = [regs EXCEPT ![PC] = (loc[p].tmp + 1) % U16]
  /\ loc' = [loc EXCEPT ![p].tmp = 0]
  /\ Goto(p, "exec")
  /\ loaded' = NoLoad
  /\ UNCHANGED <<mem, running, mutex, observers, sent, crashed, issued, added, scen, halted, quiet>>
  /\ UNCHANGED aluSeen

\* step: c.Registers[PC] += 2, the write
IncWrite(p) ==
  /\ ~crashed
  /\ pcs[p] = "incW"
  /\ regs' = [regs EXCEPT ![PC] = (loc[p].tmp + 2) % U16]
  /\ loc' = [loc EXCEPT ![p].tmp = 0]
  /\ Goto(p, "exec")
  /\ loaded' = NoLoad
  /\ UNCHANGED <<mem, running, mutex, observers, sent, crashed, issued, added, scen, halted, quiet>>
  /\ UNCHANGED aluSeen

\* step: decode, and the selected case's reads (an out-of-range slice panics here)
Exec(p) ==
  /\ ~crashed
  /\ pcs[p] = "exec"
  /\ LET e == Effect(regs, mem, loc[p].ins) IN
       /\ loc' = [loc EXCEPT ![p].eff = e]
       /\ Goto(p, IF e.k = "panic" THEN "panic" ELSE "commit")
  /\ UNCHANGED <<regs, mem, running, mutex, observers, sent, crashed, issued, added, scen,
                 halted, quiet, loaded>>
  /\ UNCHANGED aluSeen

\* ADD, SUB, AND, OR, XOR, SLL, SRL, ADDI, SUBI
ALUClass(op) == op \in (1..7) \cup {9, 10}
\* a 16-bit result is zero, negative (top bit 1) or positive
ResultClass(v) == IF v = 0 THEN "Z" ELSE IF v >= U16 \div 2 THEN "N" ELSE "P"

\* step: the selected case's write
Commit(p) ==
  /\ ~crashed
  /\ pcs[p] = "commit"
  /\ LET e == loc[p].eff
         s == ApplyEffect(Engine, e)
     IN  /\ regs' = s.regs
         /\ mem' = s.mem
         /\ running' = s.running
         /\ halted' = (halted \/ e.k = "stop")
         /\ quiet' = (quiet \/ (e.k = "stop" /\ OpCode(loc[p].ins) = 15))
  /\ loc' = [loc EXCEPT ![p] = Local0]
  /\ Goto(p, "notify")
  /\ loaded' = NoLoad
  /\ UNCHANGED <<mutex, observers, sent, crashed, issued, added, scen>>
  /\ aluSeen' = IF loc[p].eff.k = "reg" /\ ALUClass(OpCode(loc[p].ins))
                THEN aluSeen \cup {<<ResultClass(loc[p].eff.v), regs'[SR]>>}
                ELSE aluSeen

\* a panic leaves step() or GetState(): a deferred Unlock of a lock the goroutine
\* still holds runs and net/http recovers the handler; Run has no deferred Unlock
\* and no recover, the process dies
Panic(p) ==
  /\ ~crashed
  /\ pcs[p] = "panic"
  /\ IF p = Clock
     THEN crashed' = TRUE /\ UNCHANGED <<mutex, pcs, loc>>
     ELSE /\ mutex' = IF mutex = p THEN NoProc ELSE mutex
          /\ Return(p)
          /\ UNCHANGED crashed
  /\ UNCHANGED <<regs, mem, running, observers, sent, issued, added, scen, halted, quiet, loaded>>
  /\ UNCHANGED aluSeen

\* notifyObservers: for _, o := range c.observers (the slice is read once)
Notify(p) ==
  /\ ~crashed
  /\ pcs[p] = "notify"
  /\ loc' = [loc EXCEPT ![p].obs = observers, ![p].i = 1]
  /\ sent' = <<>>
  /\ Goto(p, "update")
  /\ UNCHANGED <<regs, mem, running, mutex, observers, crashed, issued, added, scen,
                 halted, quiet, loaded>>
  /\ UNCHANGED aluSeen

\* notifyObservers: o.Update(c); WebSocketObserver.Update calls computer.GetState()
Update(p) ==
  /\ ~crashed
  /\ pcs[p] = "update"
  /\ IF loc[p].i > Len(loc[p].obs)
     THEN Goto(p, "unlock") /\ UNCHANGED loc
     ELSE Goto(p, "gs_lock") /\ loc' = [loc EXCEPT ![p].ret = "update"]
  /\ UNCHANGED <<regs, mem, running, mutex, observers, sent, crashed, issued, added, scen,
                 halted, quiet, loaded>>
  /\ UNCHANGED aluSeen

\* Step: deferred c.mutex.Unlock(); Run: c.mutex.Unlock(); LoadProgram: deferred Unlock
Unlock(p) ==
  /\ ~crashed
  /\ pcs[p] = "unlock"
  /\ mutex' = NoProc
  /\ Return(p)
  /\ UNCHANGED <<regs, mem, running, observers, sent, crashed, issued, added, scen,
                 halted, quiet, loaded>>
  /\ UNCHANGED aluSeen

\* ------------------------------------------------------ GetState (mtmc.go)
\* handleIndex: data := s.computer.GetState()
Index(p) ==
  /\ CanIssue(p)
  /\ loc' = [loc EXCEPT ![p].ret = "index"]
  /\ Goto(p, "gs_lock")
  /\ issued' = issued + 1
  /\ UNCHANGED <<regs, mem, running, mutex, observers, sent, crashed, added, scen,
                 halted, quiet, loaded>>
  /\ UNCHANGED aluSeen

\* GetState: c.mutex.Lock(); sync.Mutex is not reentrant
GetStateLock(p) ==
  /\ ~crashed
  /\ pcs[p] = "gs_lock"
  /\ mutex = NoProc
  /\ mutex' = p
  /\ Goto(p, "gs_body")
  /\ UNCHANGED <<regs, mem, running, observers, sent, crashed, loc, issued, added, scen,
                 halted, quiet, loaded>>
  /\ UNCHANGED aluSeen

\* the snapshot GetState returns: registers, running flag, c.Memory[:256]
Snapshot == [registers |-> regs, running |-> running,
             memory |-> [a \in 0..(StateWindow - 1) |-> mem[a]]]

\* GetState: the snapshot and the deferred Unlock.  c.Memory[:256] panics when the
\* slice's capacity is below 256; the deferred Unlock still runs.
GetStateBody(p) ==
  /\ ~crashed
  /\ pcs[p] = "gs_body"
  /\ mutex' = NoProc
  /\ IF StateWindow > MemorySize
     THEN /\ Goto(p, "panic")
          /\ UNCHANGED <<loc, sent>>
     ELSE IF loc[p].ret = "index"
          THEN Return(p) /\ UNCHANGED sent
          ELSE /\ sent' = Append(sent, [obs |-> loc[p].obs[loc[p].i], state |-> Snapshot])
               /\ loc' = [loc EXCEPT ![p].i = @ + 1]
               /\ Goto(p, "update")
  /\ UNCHANGED <<regs, mem, running, observers, crashed, issued, added, scen,
                 halted, quiet, loaded>>
  /\ UNCHANGED aluSeen

\* ----------------------------------------- AddObserver (handleWebSocket)
\* c.observers = append(c.observers, o): the read of the slice
AddObserverRead(p) ==
  /\ CanIssue(p)
  /\ Cardinality(added) < MaxObs
  /\ loc' = [loc EXCEPT ![p].obs = observers, ![p].i = Cardinality(added) + 1]
  /\ added' = added \cup {Cardinality(added) + 1}
  /\ Goto(p, "add_write")
  /\ issued' = issued + 1
  /\ UNCHANGED <<regs, mem, running, mutex, observers, sent, crashed, scen,
                 halted, quiet, loaded>>
  /\ UNCHANGED aluSeen

\* c.observers = append(c.observers, o): the write of the slice
AddObserverWrite(p) ==
  /\ ~crashed
  /\ pcs[p] = "add_write"
  /\ observers' = Append(loc[p].obs, loc[p].i)
  /\ Return(p)
  /\ UNCHANGED <<regs, mem, running, mutex, sent, crashed, issued, added, scen,
                 halted, quiet, loaded>>
  /\ UNCHANGED aluSeen

\* -------------------------------------------- LoadProgram (handleLoad)
\* LoadProgram: c.mutex.Lock()
LoadLock(p, prog, address) ==
  /\ CanIssue(p)
  /\ mutex = NoProc
  /\ mutex' = p
  /\ loc' = [loc EXCEPT ![p].prog = prog, ![p].addr = address, ![p].ret = "load"]
  /\ Goto(p, "load_copy")
  /\ issued' = issued + 1
  /\ scen' = Issue(p, Cmd("load", prog, address))
  /\ quiet' = FALSE
  /\ UNCHANGED <<regs, mem, running, observers, sent, crashed, added, halted, loaded>>
  /\ UNCHANGED aluSeen

\* LoadProgram: copy(c.Memory[address:], program)
LoadCopy(p) ==
  /\ ~crashed
  /\ pcs[p] = "load_copy"
  /\ IF loc[p].addr > MemorySize
     THEN Goto(p, "panic") /\ UNCHANGED mem
     ELSE Goto(p, "load_pc") /\ mem' = CopyInto(mem, loc[p].prog, loc[p].addr)
  /\ loaded' = NoLoad
  /\ quiet' = FALSE
  /\ halted' = FALSE
  /\ UNCHANGED <<regs, running, mutex, observers, sent, crashed, loc, issued, added, scen>>
  /\ UNCHANGED aluSeen

\* LoadProgram: c.Registers[PC] = address
LoadPC(p) ==
  /\ ~crashed
  /\ pcs[p] = "load_pc"
  /\ regs' = [regs EXCEPT ![PC] = loc[p].addr]
  /\ Goto(p, "unlock")
  /\ quiet' = FALSE
  /\ loaded' = [valid |-> TRUE, prog |-> loc[p].prog, addr |-> loc[p].addr]
  /\ UNCHANGED <<mem, running, mutex, observers, sent, crashed, loc, issued, added, scen, halted>>
  /\ UNCHANGED aluSeen

\* ------------------------------------------------------------ specification
\* what goroutine p can do next once it is inside an operation
ProcNext(p) ==
  \/ StepLock(p) \/ Fetch(p) \/ IncRead(p) \/ IncWrite(p) \/ Exec(p) \/ Commit(p)
  \/ Panic(p) \/ Notify(p) \/ Update(p) \/ Unlock(p)
  \/ GetStateLock(p) \/ GetStateBody(p)
  \/ ResetRunning(p) \/ AddObserverWrite(p) \/ LoadCopy(p) \/ LoadPC(p)

Request(p) ==
  \/ Run(p) \/ Pause(p) \/ ResetPC(p) \/ StepCall(p) \/ Index(p) \/ AddObserverRead(p)
  \/ \E prog \in Programs, address \in LoadAddrs : LoadLock(p, prog, address)

Next ==
  \/ Tick
  \/ \E p \in Handlers : Request(p)
  \/ \E p \in Procs : ProcNext(p)

Spec == Init /\ [][Next]_vars

\* the Go scheduler runs every runnable goroutine, and the ticker keeps firing
FairSpec == Spec /\ WF_vars(Tick) /\ \A p \in Procs : WF_vars(ProcNext(p))

\* =================================================================== claims
\* goroutine p is between "read program counter" and the end of the broadcast
InStep(p) ==
  \/ pcs[p] \in {"fetch", "incR", "incW", "exec", "commit", "notify", "update"}
  \/ pcs[p] \in {"gs_lock", "gs_body", "panic"} /\ loc[p].ret \notin {"index", "load"}

NumOps == BagCardinality(scen.ops)
AllSteps == \A c \in BagToSet(scen.ops) : c.op = "step"

\* the instruction at PC is recognised, is no branch and no HALT, and does not write PC
PlainIns(s) ==
  /\ PCInRange(s.regs[PC])
  /\ LET ins == Uint16At(s.mem, s.regs[PC]) IN
       \/ OpCode(ins) \in {1, 2, 3, 4, 5, 6, 7, 9, 10, 12} /\ RegD(ins) # PC
       \/ OpCode(ins) = 13

RECURSIVE SeqSteps(_, _)
SeqSteps(s, n) == IF n = 0 THEN s ELSE SeqSteps(SeqStep(s), n - 1)

RECURSIVE PlainRun(_, _)
PlainRun(s, n) == n = 0 \/ (PlainIns(s) /\ PlainRun(SeqStep(s), n - 1))

\* C1: once N concurrent Step() calls (engine not running, nothing else in flight,
\* N plain instructions ahead) have all returned, PC is its initial value plus 2*N
\* and registers and memory are those of N sequential steps.
ConcurrentStepsSequential ==
  (scen.ok /\ Quiescent /\ AllSteps /\ PlainRun(scen.base, NumOps)) =>
     /\ Engine = SeqSteps(scen.base, NumOps)
     /\ regs[PC] = scen.base.regs[PC] + 2 * NumOps

\* two Step() calls that were in flight together have both returned
ConcurrentStepsWitness ==
  /\ scen.ok /\ Quiescent /\ AllSteps /\ scen.conc
  /\ NumOps >= 2
  /\ PlainRun(scen.base, NumOps)
  /\ regs[1] = 5 /\ regs[2] = 10

\* the command c run alone on engine state s
ApplyCmd(s, c) ==
  CASE c.op = "step" -> SeqStep(s)
    [] c.op = "reset" -> SeqReset(s)
    [] c.op = "pause" -> SeqPause(s)
    [] c.op = "run" -> SeqRun(s)
    [] c.op = "load" -> SeqLoad(s, c.prog, c.addr)

RECURSIVE SerialResults(_, _)
SerialResults(s, b) ==
  IF BagToSet(b) = {} THEN {s}
  ELSE UNION { SerialResults(ApplyCmd(s, c), b (-) SetToBag({c})) : c \in BagToSet(b) }

\* C2: the control operations are atomic with respect to each other: when the
\* commands issued since a quiescent state (clock not running) have all returned,
\* the engine state is the result of some serial order of them.
ControlOpsSerializable ==
  (scen.ok /\ Quiescent) => Engine \in SerialResults(scen.base, scen.ops)

\* C3: no two steps (clock-driven or manual) are inside fetch-decode-execute-
\* broadcast at once, and whoever is inside holds the engine lock.
StepsMutuallyExclusive ==
  \A p \in Procs : InStep(p) =>
     /\ mutex = p
     /\ \A q \in Procs : InStep(q) => q = p

\* a clock-driven step is in progress while a manual Step() waits for the lock
StepsExclusiveWitness ==
  InStep(Clock) /\ pcs[Clock] = "exec" /\ \E p \in Handlers : pcs[p] = "lock"

\* C4: a step never blocks: a goroutine that holds the engine lock (and whose
\* process is alive) can always take its next step, so the lock is released.
LockHolderNeverBlocks ==
  \A p \in Procs : (mutex = p /\ ~crashed) => ENABLED ProcNext(p)

\* C5: every executed step is broadcast: once step() has returned and the
\* broadcast starts, every observer registered at that moment is sent one update,
\* in registration order, and the broadcast ends.
EveryStepIsBroadcast ==
  \A p \in Procs :
     (pcs[p] = "notify") ~>
        (/\ pcs[p] = "unlock"
         /\ Len(sent) = Len(loc[p].obs)
         /\ \A i \in 1..Len(sent) : sent[i].obs = loc[p].obs[i])

\* C6: executing HALT clears the running flag, and while no control command acts
\* afterwards the flag stays clear and no action of the clock changes a register
\* or a memory byte.
HaltStopsClock ==
  [][/\ (\E p \in Procs : pcs[p] = "commit" /\ pcs'[p] = "notify"
                          /\ OpCode(loc[p].ins) = 15) => (~running' /\ quiet')
     /\ (quiet /\ quiet') =>
          (/\ ~running'
           /\ (pcs'[Clock] # pcs[Clock] => (regs' = regs /\ mem' = mem)))]_vars

\* HALT has been executed by the clock, which is idle again and may tick
HaltStopsClockWitness ==
  /\ quiet /\ ~running /\ Quiescent /\ mutex = NoProc /\ ~crashed
  /\ regs[PC] = 8 /\ regs[2] = 10

\* C7: Halted is terminal: while the engine stays halted (no reset, no load) the
\* running flag stays false and no register or memory byte changes.
HaltedIsTerminal ==
  [][(halted /\ halted') => (~running' /\ regs' = regs /\ mem' = mem)]_vars

\* C8 as stated: after the copy the whole program is in memory at address..address+len-1
LoadCopiesWholeProgram ==
  \A p \in Handlers : pcs[p] = "load_pc" =>
     \A i \in 1..Len(loc[p].prog) :
        /\ loc[p].addr + i - 1 <= MemorySize - 1
        /\ mem[loc[p].addr + i - 1] = loc[p].prog[i]

MinOf(a, b) == IF a <= b THEN a ELSE b

\* C8 (amended): LoadProgram copies the first min(len(program), MemorySize - address)
\* bytes of program to memory from address on and changes nothing else there, then
\* sets PC to address and changes no other register; the next step fetches the
\* program's first word (the program holding one, address <= MemorySize - 2).
LoadCopiesPrefix ==
  [][\A p \in Handlers :
       /\ (pcs[p] = "load_copy" /\ pcs'[p] # "load_copy") =>
            /\ pcs'[p] = "load_pc"
            /\ regs' = regs
            /\ \A a \in 0..(MemorySize - 1) :
                 mem'[a] = IF /\ a >= loc[p].addr
                              /\ a - loc[p].addr < MinOf(Len(loc[p].prog), MemorySize - loc[p].addr)
                           THEN loc[p].prog[a - loc[p].addr + 1]
                           ELSE mem[a]
       /\ (pcs[p] = "load_pc" /\ pcs'[p] # "load_pc") =>
            /\ mem' = mem
            /\ \A r \in 0..(NumRegs - 1) :
                 regs'[r] = IF r = PC THEN loc[p].addr ELSE regs[r]
       /\ \A q \in Procs :
            (/\ loaded.valid /\ Len(loaded.prog) >= 2 /\ loaded.addr <= MemorySize - 2
             /\ pcs[q] = "fetch" /\ pcs'[q] # "fetch") =>
               /\ pcs'[q] = "incR"
               /\ loc'[q].ins = loaded.prog[1] * 256 + loaded.prog[2]]_vars

\* a program longer than memory was loaded and the next step has fetched its first word
LoadCopiesPrefixWitness ==
  \E q \in Procs :
     /\ loaded.valid /\ Len(loaded.prog) > MemorySize
     /\ pcs[q] = "incR" /\ loc[q].ins = 224 * 256 + 1
     /\ mem[MemorySize - 1] = loaded.prog[MemorySize]

\* C9: when LoadProgram returns the running flag is false
LoadLeavesPaused ==
  \A p \in Handlers : (pcs[p] = "unlock" /\ loc[p].ret = "load") => ~running

\* C10: a load-word or store-word whose effective address (not wrapped) is outside
\* [0, MemorySize-2] ends the step normally with the running flag cleared and
\* nothing else written.
LoadStoreFaultHalts ==
  [][\A p \in Procs :
       (/\ pcs[p] = "exec" /\ pcs'[p] # "exec"
        /\ OpCode(loc[p].ins) \in {12, 13}
        /\ regs[RegS(loc[p].ins)] + Imm(loc[p].ins) > MemorySize - 2) =>
          (pcs'[p] = "commit" /\ loc'[p].eff = StopEffect)]_vars

\* C11: a step that starts with the program counter outside [0, MemorySize - 2]
\* fetches and executes nothing (it goes straight to the broadcast), sets
\* Running to false and leaves every register and every memory byte unchanged.
PCOutOfRange(pc) == pc < 0 \/ pc > MemorySize - 2

PCFaultStopsStep ==
  [][\A p \in Procs :
       (pcs[p] = "fetch" /\ pcs'[p] # "fetch" /\ PCOutOfRange(regs[PC]))
         => /\ running' = FALSE
            /\ regs' = regs
            /\ mem' = mem
            /\ pcs'[p] = "notify"
            /\ loc'[p] = loc[p]
            /\ loc[p].ins = 0 /\ loc[p].eff = NoEffect]_vars

\* the clock has branched from 6 to 518 in ProgJump and its next step has stopped
\* on the bounds check
PCFaultWitness ==
  /\ pcs[Clock] = "notify"
  /\ PCOutOfRange(regs[PC])
  /\ regs[PC] = 518
  /\ halted /\ ~running
  /\ mem[6] = 224 /\ mem[7] = 255

\* C12: a word whose opcode has no case in step()'s switch sets Running to false
\* and changes no memory byte and no register but the program counter (which the
\* step advanced before the switch); the clock starts a step only while Running,
\* and only a run command sets Running again.
InDispatchTable(op) == op \in (1..7) \cup {9, 10, 12, 13, 14, 15}

UnknownOpcodeStops ==
  [][/\ \A p \in Procs :
          (pcs[p] \in {"incW", "exec", "commit"} /\ pcs'[p] # pcs[p]
             /\ ~InDispatchTable(OpCode(loc[p].ins)))
            => /\ mem' = mem
               /\ \A x \in DOMAIN regs : x # PC => regs'[x] = regs[x]
               /\ pcs[p] = "incW" => pcs'[p] = "exec"
               /\ pcs[p] = "exec" => (pcs'[p] = "commit" /\ regs' = regs)
               /\ pcs[p] = "commit" => (running' = FALSE /\ regs' = regs /\ pcs'[p] = "notify")
     /\ (pcs[Clock] = "idle" /\ pcs'[Clock] # "idle") => running
     /\ (~running /\ running') => (issued' = issued + 1 /\ regs' = regs /\ mem' = mem)]_vars

\* the clock has run ProgMisc up to its opcode-8 word and stopped there
UnknownOpcodeWitness ==
  /\ pcs[Clock] = "notify"
  /\ mem[6] = 128 /\ regs[PC] = 8
  /\ regs[1] = 255
  /\ ~running /\ halted /\ ~quiet

\* C13: the immediate byte is used as a two's-complement value: ADDI adds and
\* SUBI subtracts SignExtend(byte) modulo 2^16, and LW / SW address the word at
\* register + SignExtend(byte) modulo 2^16.
SignExtend(b) == IF b >= 128 THEN b - 256 ELSE b

ImmediateIsSignExtended ==
  [][\A p \in Procs :
       (pcs[p] = "exec" /\ pcs'[p] # "exec")
         => LET ins == loc[p].ins
                op == OpCode(ins)
                s == regs[RegS(ins)]
                a == (s + SignExtend(ins % 256)) % U16
                e == loc'[p].eff
            IN  /\ op = 9 => e = RegWrite(RegD(ins), (s + SignExtend(ins % 256)) % U16)
                /\ op = 10 => e = RegWrite(RegD(ins), (s - SignExtend(ins % 256)) % U16)
                /\ (op = 12 /\ WordInMemory(a)) => e = RegWrite(RegD(ins), Uint16At(mem, a))
                /\ (op = 13 /\ WordInMemory(a)) => e = MemWrite(a, regs[RegD(ins)])]_vars

\* C14: BZ fetched at p (the program counter is p + 2 when the case runs): when
\* the tested register is 0 the program counter becomes p + 2 + 2 * immediate
\* modulo 2^16, the immediate being the signed byte of C13; otherwise it stays
\* p + 2; no other register, no memory byte and not Running changes.
BranchIfZeroTarget ==
  [][\A p \in Procs :
       LET ins == loc[p].ins IN
       OpCode(ins) = 14 =>
         /\ (pcs[p] = "exec" /\ pcs'[p] # "exec")
              => /\ pcs'[p] = "commit"
                 /\ loc'[p].eff =
                      IF regs[RegS(ins)] = 0
                      THEN RegWrite(PC, (regs[PC] + 2 * SignExtend(ins % 256)) % U16)
                      ELSE NoEffect
         /\ (pcs[p] = "commit" /\ pcs'[p] # "commit")
              => /\ mem' = mem /\ running' = running
                 /\ \A x \in DOMAIN regs : x # PC => regs'[x] = regs[x]
                 /\ regs'[PC] = IF loc[p].eff.k = "reg" THEN loc[p].eff.v ELSE regs[PC]]_vars

\* C15: in every reachable state the memory has exactly 4096 bytes.
DocumentedMemorySize == 4096

MemoryHas4096Bytes == DOMAIN mem = 0..(DocumentedMemorySize - 1)

\* C16: GetState() succeeds in every reachable state: its body never panics, the
\* 256-byte window it returns lies inside the memory.
GetStateSucceeds ==
  [][\A p \in Procs :
       (pcs[p] = "gs_body" /\ pcs'[p] # "gs_body")
         => /\ pcs'[p] # "panic"
            /\ \A a \in 0..(StateWindow - 1) : a \in DOMAIN mem]_vars

\* C17: the registry loses nothing: every observer passed to an AddObserver call
\* that has returned is in the registry, once, in the order of the calls.
RegistryKeepsEveryObserver ==
  /\ \A id \in added :
        \/ \E p \in Handlers : pcs[p] = "add_write" /\ loc[p].i = id
        \/ \E k \in 1..Len(observers) : observers[k] = id
  /\ \A j, k \in 1..Len(observers) : j < k => observers[j] < observers[k]

\* the word a step started in engine state s fetches, and the registers its case reads
FetchedWord(s) == Uint16At(s.mem, s.regs[PC])
AdvancedRegs(s) == [s.regs EXCEPT ![PC] = (@ + 2) % U16]

\* the step fetches a word that is not a taken BZ
NotTakenBranch(s) ==
  /\ PCInRange(s.regs[PC])
  /\ ~(OpCode(FetchedWord(s)) = 14 /\ AdvancedRegs(s)[RegS(FetchedWord(s))] = 0)

\* the fetched word is an ALU, immediate or load instruction whose destination is the PC
DestinationIsPC(s) ==
  /\ OpCode(FetchedWord(s)) \in (1..7) \cup {9, 10, 12}
  /\ RegD(FetchedWord(s)) = PC

\* one Step() call, made while the engine was paused and nothing else was in flight, has returned
OneStepAlone == scen.ok /\ Quiescent /\ AllSteps /\ NumOps = 1

StatusDescribesResult ==
  \A x, y \in aluSeen : x[1] # y[1] => x[2] # y[2]

\* C20: what an immediate-form instruction (ADDI, SUBI, LW, SW, BZ) does depends
\* on the register named by bits[11:8] and on the immediate, never on the
\* contents of the registers whose indices equal bits[7:4] or bits[3:0]:
\* whatever such a register held, the instruction's effect would be the same.
ImmediateForm(op) == op \in {9, 10, 12, 13, 14}

ImmediateIgnoresLowFields ==
  \A p \in Procs :
    (pcs[p] = "exec" /\ ImmediateForm(OpCode(loc[p].ins))) =>
      \A x \in {RegS(loc[p].ins), RegT(loc[p].ins)} \ {RegD(loc[p].ins), PC} :
        \A v \in {0, 1} :
          Effect([regs EXCEPT ![x] = v], mem, loc[p].ins) = Effect(regs, mem, loc[p].ins)

====
